---------------------------- MODULE Spec2Model ----------------------------
(***************************************************************************)
(* A model of majolo/tinygba: the tile/tilemap library (tiles.go), the     *)
(* sound register writes (sound.go) and the tiled keyboard example         *)
(* (InitTiles, Update, DrawTile, glyphQuarterTiles).                       *)
(*                                                                         *)
(* The machine's memory-mapped address space is one sparse map `mem` from  *)
(* the byte address of a 16-bit location to the value last stored there.   *)
(* Every store of the library goes through mem16(addr).Set(val) (or a      *)
(* volatile 16-bit device register), so each library function is an        *)
(* operator that yields its stores, in program order, and an action        *)
(* applies them to `mem`.  An address out of DOMAIN mem was never stored   *)
(* to and still holds whatever it held at power-on.                        *)
(***************************************************************************)
EXTENDS Integers, Sequences, FiniteSets, TLC

VARIABLES
    mem,            \* address -> 16-bit value, for every address stored to
    pre,            \* history: mem as it was before the last call
    last,           \* history: the last call [op, args, writes]
    ncalls,         \* history: number of calls made by the driver
    selectedRow,    \* example program: cursor row
    selectedCol,    \* example program: cursor column
    prevButtons,    \* example program: KEYINPUT as read by the last Update
    prevTileRow,    \* example program: row of the key last highlighted
    prevTileCol,    \* example program: column of the key last highlighted
    pc,             \* example program: position in main
    ip,             \* example program: next call of InitTiles
    rows,           \* glyph compositor: the [7]uint8 argument
    quads           \* glyph compositor: the four [32]byte results

vars == <<mem, pre, last, ncalls, selectedRow, selectedCol, prevButtons,
          prevTileRow, prevTileCol, pc, ip, rows, quads>>

appVars == <<selectedRow, selectedCol, prevButtons, prevTileRow, prevTileCol,
             pc, ip>>

glyphVars == <<rows, quads>>

---------------------------------------------------------------------------
(* Fixed-width integer arithmetic.                                         *)

RECURSIVE BitOr(_, _)
BitOr(a, b) ==
    IF a = 0 THEN b
    ELSE IF b = 0 THEN a
    ELSE (IF a % 2 = 1 \/ b % 2 = 1 THEN 1 ELSE 0)
         + 2 * BitOr(a \div 2, b \div 2)

RECURSIVE BitAnd(_, _)
BitAnd(a, b) ==
    IF a = 0 \/ b = 0 THEN 0
    ELSE (IF a % 2 = 1 /\ b % 2 = 1 THEN 1 ELSE 0)
         + 2 * BitAnd(a \div 2, b \div 2)

Shl16(a, n) == (a * (2 ^ n)) % 65536

Shl8(a, n) == (a * (2 ^ n)) % 256

Shr(a, n) == a \div (2 ^ n)

Bit(a, n) == (a \div (2 ^ n)) % 2

U8(a) == a % 256

BoolBit(b) == IF b THEN 1 ELSE 0

---------------------------------------------------------------------------
(* Memory.                                                                 *)

memPAL == 83886080

memVRAM == 100663296

\* What a location never stored to reads as: no 16-bit value.
Unwritten == 0 - 1

\* mem16(addr).Set(val): one volatile 16-bit store.
mem16Set(addr, val) == << [addr |-> addr, val |-> val] >>

StoreAddrs(ws) == { ws[i].addr : i \in DOMAIN ws }

LastStoreTo(ws, a) ==
    LET is == { i \in DOMAIN ws : ws[i].addr = a }
    IN  ws[CHOOSE i \in is : \A j \in is : j <= i].val

\* Memory after the stores ws, applied in order to m.
ApplyStores(m, ws) ==
    IF ws = << >> THEN m
    ELSE [a \in StoreAddrs(ws) |-> LastStoreTo(ws, a)] @@ m

Read16(m, addr) == IF addr \in DOMAIN m THEN m[addr] ELSE Unwritten

\* The byte at byte address addr (little-endian halves of a 16-bit location).
Read8(m, addr) ==
    LET w == Read16(m, addr - (addr % 2))
    IN  IF w = Unwritten THEN Unwritten
        ELSE IF addr % 2 = 0 THEN w % 256 ELSE w \div 256

---------------------------------------------------------------------------
(* tiles.go                                                                *)

\* RGB(r, g, b uint8) uint16
RGB(r, g, b) == BitOr(BitOr(r, Shl16(g, 5)), Shl16(b, 10))

\* Faulty variant: the index taken as counting from 1.
PaletteAddrFromOne(palette, index) == memPAL + palette * 32 + (index - 1) * 2

PaletteAddr(palette, index) == memPAL + palette * 32 + index * 2

SetPaletteColor(palette, index, color) ==
    mem16Set(PaletteAddr(palette, index), color)

TileBase4bpp(charBlock, tileIndex) == memVRAM + charBlock * 16384 + tileIndex * 32

TileBase8bpp(charBlock, tileIndex) == memVRAM + charBlock * 16384 + tileIndex * 64

\* Faulty variant: the two bytes of a word in the other order.
PackWordSwapped(pixels, i) == BitOr(Shl16(pixels[i * 2], 8), pixels[i * 2 + 1])

\* val := uint16(pixels[i*2]) | uint16(pixels[i*2+1])<<8
PackWord(pixels, i) == BitOr(pixels[i * 2], Shl16(pixels[i * 2 + 1], 8))

\* pixels: a [32]byte, indexed 0..31
DefineTile4bpp(charBlock, tileIndex, pixels) ==
    [k \in 1..16 |->
        [addr |-> TileBase4bpp(charBlock, tileIndex) + (k - 1) * 2,
         val  |-> PackWord(pixels, k - 1)]]

\* pixels: a [64]byte, indexed 0..63
DefineTile8bpp(charBlock, tileIndex, pixels) ==
    [k \in 1..32 |->
        [addr |-> TileBase8bpp(charBlock, tileIndex) + (k - 1) * 2,
         val  |-> PackWord(pixels, k - 1)]]

TilemapAddr(screenBlock, x, y) == memVRAM + screenBlock * 2048 + (y * 32 + x) * 2

\* Faulty variant: the vertical flip set in the horizontal flip's bit.
TileEntryFlipBit(tileIndex, palette, flipH, flipV) ==
    LET e0 == tileIndex
        e1 == IF flipH THEN BitOr(e0, Shl16(1, 10)) ELSE e0
        e2 == IF flipV THEN BitOr(e1, Shl16(1, 10)) ELSE e1
    IN  BitOr(e2, Shl16(palette, 12))

TileEntry(tileIndex, palette, flipH, flipV) ==
    LET e0 == tileIndex
        e1 == IF flipH THEN BitOr(e0, Shl16(1, 10)) ELSE e0
        e2 == IF flipV THEN BitOr(e1, Shl16(1, 11)) ELSE e1
    IN  BitOr(e2, Shl16(palette, 12))

SetTile(screenBlock, x, y, tileIndex, palette, flipH, flipV) ==
    mem16Set(TilemapAddr(screenBlock, x, y),
             TileEntry(tileIndex, palette, flipH, flipV))

\* for row < h { for col < w { SetTile(screenBlock, x+col, y+row, ...) } },
\* with x+col and y+row computed in uint8.
FillTiled(screenBlock, x, y, w, h, tileIndex, palette) ==
    [k \in 1..(h * w) |->
        LET row == (k - 1) \div w
            col == (k - 1) % w
        IN  SetTile(screenBlock, U8(x + col), U8(y + row),
                    tileIndex, palette, FALSE, FALSE)[1]]

---------------------------------------------------------------------------
(* Calls and their effect.                                                 *)

EmptyMem == [a \in {} |-> 0]

NoCall == [op |-> "none", args |-> [none |-> TRUE], writes |-> << >>]

\* A call of a library function: its stores reach memory in order.
Call(op, args, ws) ==
    /\ pre' = mem
    /\ mem' = ApplyStores(mem, ws)
    /\ last' = [op |-> op, args |-> args, writes |-> ws]

AppIdle ==
    /\ selectedRow = 0
    /\ selectedCol = 0
    /\ prevButtons = 65535
    /\ prevTileRow = 0 - 1
    /\ prevTileCol = 0 - 1
    /\ pc = "InitTiles"
    /\ ip = 1

GlyphIdle ==
    /\ rows = << >>
    /\ quads = << >>

MemInit ==
    /\ mem = EmptyMem
    /\ pre = EmptyMem
    /\ last = NoCall
    /\ ncalls = 0

---------------------------------------------------------------------------
(* SpecTilemap: SetTile and FillTiled called with arguments in and out of  *)
(* the documented ranges.                                                  *)

MaxTilemapCalls == 2

MaxFill == 2

TmBlocks == {8, 9}

TmCoords == {0, 31, 32}

TmTiles == {1, 1024}

CallSetTile ==
    /\ ncalls < MaxTilemapCalls
    /\ \E sb \in TmBlocks, x \in TmCoords, y \in TmCoords, t \in TmTiles :
          Call("SetTile",
               [screenBlock |-> sb, x |-> x, y |-> y, tileIndex |-> t,
                palette |-> 0, flipH |-> FALSE, flipV |-> FALSE],
               SetTile(sb, x, y, t, 0, FALSE, FALSE))
    /\ ncalls' = ncalls + 1
    /\ UNCHANGED <<appVars, glyphVars>>

CallFillTiled ==
    /\ ncalls < MaxTilemapCalls
    /\ \E sb \in TmBlocks, x \in TmCoords, y \in TmCoords,
          w \in 0..MaxFill, h \in 0..MaxFill, t \in TmTiles :
          Call("FillTiled",
               [screenBlock |-> sb, x |-> x, y |-> y, w |-> w, h |-> h,
                tileIndex |-> t, palette |-> 0],
               FillTiled(sb, x, y, w, h, t, 0))
    /\ ncalls' = ncalls + 1
    /\ UNCHANGED <<appVars, glyphVars>>

InitTilemap == MemInit /\ AppIdle /\ GlyphIdle

NextTilemap == CallSetTile \/ CallFillTiled

SpecTilemap == InitTilemap /\ [][NextTilemap]_vars

---------------------------------------------------------------------------
(* Reading a tilemap entry back (the hardware's 16-bit cell layout).       *)

EntryTile(e) == e % 1024

EntryFlipH(e) == Bit(e, 10) = 1

EntryFlipV(e) == Bit(e, 11) = 1

EntryPalette(e) == (e \div 4096) % 16

GridCoords == 0..31

ScreenBlocks == 0..31

SameEverywhere ==
    \A a \in (DOMAIN mem) \cup (DOMAIN pre) : Read16(mem, a) = Read16(pre, a)

\* C3: SetTile with a tile coordinate outside the 32x32 grid (x >= 32 or
\* y >= 32) is rejected: it performs no store, and every tilemap cell of
\* every screen block holds the value it held before the call.
C3_OutOfRangeRejected ==
    (last.op = "SetTile" /\ (last.args.x >= 32 \/ last.args.y >= 32))
        => /\ last.writes = << >>
           /\ \A sb \in ScreenBlocks, cx \in GridCoords, cy \in GridCoords :
                 Read16(mem, TilemapAddr(sb, cx, cy))
                     = Read16(pre, TilemapAddr(sb, cx, cy))

\* C4: after FillTiled(screenBlock, x, y, w, h, tileIndex, palette), for all
\* argument values, every cell of the rectangle reads back tileIndex and
\* palette with the flip flags clear, and every other tilemap cell of every
\* screen block holds the value it held before the call.
C4_FillRectAllArguments ==
    last.op = "FillTiled" =>
        LET a == last.args
            InRect(sb, cx, cy) ==
                /\ sb = a.screenBlock
                /\ a.x <= cx /\ cx < a.x + a.w
                /\ a.y <= cy /\ cy < a.y + a.h
        IN  /\ \A cx \in a.x..(a.x + a.w - 1), cy \in a.y..(a.y + a.h - 1) :
                 LET e == Read16(mem, TilemapAddr(a.screenBlock, cx, cy))
                 IN  /\ e # Unwritten
                     /\ EntryTile(e) = a.tileIndex
                     /\ EntryPalette(e) = a.palette
                     /\ ~EntryFlipH(e)
                     /\ ~EntryFlipV(e)
            /\ \A sb \in ScreenBlocks, cx \in GridCoords, cy \in GridCoords :
                 ~InRect(sb, cx, cy) =>
                     Read16(mem, TilemapAddr(sb, cx, cy))
                         = Read16(pre, TilemapAddr(sb, cx, cy))

---------------------------------------------------------------------------
(* SpecEntry: one SetTile call, over every value of the entry's fields     *)
(* (and one value past each field's width).                                *)

EntryCells == { <<8, 0, 0>>, <<9, 31, 31>> }

EntryTiles == 0..1024

EntryPalettes == 0..16

CallSetTileEntry ==
    /\ ncalls = 0
    /\ \E c \in EntryCells, t \in EntryTiles, p \in EntryPalettes,
          fh \in BOOLEAN, fv \in BOOLEAN :
          Call("SetTile",
               [screenBlock |-> c[1], x |-> c[2], y |-> c[3], tileIndex |-> t,
                palette |-> p, flipH |-> fh, flipV |-> fv],
               SetTile(c[1], c[2], c[3], t, p, fh, fv))
    /\ ncalls' = ncalls + 1
    /\ UNCHANGED <<appVars, glyphVars>>

InitEntry == MemInit /\ AppIdle /\ GlyphIdle

NextEntry == CallSetTileEntry

SpecEntry == InitEntry /\ [][NextEntry]_vars

\* C5: for tileIndex in 0..1023, palette in 0..15 and any flip flags, SetTile
\* stores exactly one 16-bit entry, at cell (x, y) of the screen block, whose
\* bits 0-9 are tileIndex, bit 10 flipH, bit 11 flipV and bits 12-15 palette:
\* the word is tileIndex + 1024*flipH + 2048*flipV + 4096*palette, so the four
\* fields are recovered from it and distinct tuples give distinct words.
C5_EntryLayout ==
    (/\ last.op = "SetTile"
     /\ last.args.tileIndex \in 0..1023
     /\ last.args.palette \in 0..15
     /\ last.args.x \in GridCoords
     /\ last.args.y \in GridCoords)
        => LET a == last.args
               addr == memVRAM + a.screenBlock * 2048 + (a.y * 32 + a.x) * 2
               e == Read16(mem, addr)
           IN  /\ Len(last.writes) = 1
               /\ last.writes[1].addr = addr
               /\ DOMAIN mem = (DOMAIN pre) \cup {addr}
               /\ \A b \in DOMAIN pre : b # addr => mem[b] = pre[b]
               /\ e \in 0..65535
               /\ e = a.tileIndex + 1024 * BoolBit(a.flipH)
                        + 2048 * BoolBit(a.flipV) + 4096 * a.palette
               /\ EntryTile(e) = a.tileIndex
               /\ EntryFlipH(e) = a.flipH
               /\ EntryFlipV(e) = a.flipV
               /\ EntryPalette(e) = a.palette

C5_Witness ==
    /\ last.op = "SetTile"
    /\ last.args.tileIndex = 1023
    /\ last.args.palette = 15
    /\ last.args.flipH
    /\ ~last.args.flipV
    /\ last.args.x = 31
    /\ Read16(mem, TilemapAddr(9, 31, 31)) = 63487

---------------------------------------------------------------------------
(* SpecTileDef: one DefineTile4bpp or DefineTile8bpp call, on empty tile   *)
(* memory and on tile memory that already holds neighbouring tiles.        *)

\* The 4bpp rule: byte i holds pixel 2i in its low nibble and pixel 2i+1 in
\* its high nibble.
Pack4bpp(pix) == [i \in 0..31 |-> pix[2 * i] + 16 * pix[2 * i + 1]]

Unpack4bpp(bytes) ==
    [j \in 0..63 |->
        IF j % 2 = 0 THEN bytes[j \div 2] % 16 ELSE bytes[j \div 2] \div 16]

\* A tile that is b everywhere but for a at pixel p.
SpotTile(p, a, b) == [j \in 0..63 |-> IF j = p THEN a ELSE b]

SolidBytes(v) == [i \in 0..31 |-> v]

\* Character block 0 with tiles 0..3 already defined.
NeighbourTiles ==
    ApplyStores(EmptyMem,
        DefineTile4bpp(0, 0, SolidBytes(0)) \o DefineTile4bpp(0, 1, SolidBytes(17))
        \o DefineTile4bpp(0, 2, SolidBytes(34)) \o DefineTile4bpp(0, 3, SolidBytes(51)))

Slots4bpp == { <<0, 1>>, <<3, 511>> }

Slots8bpp == { <<0, 1>>, <<3, 255>> }

Backgrounds4 == {0, 15}

Spots8 == {1, 128, 255}

Backgrounds8 == {0, 255}

CallDefineTile4bpp ==
    /\ ncalls = 0
    /\ \E s \in Slots4bpp, p \in 0..63, a \in 0..15, b \in Backgrounds4 :
          Call("DefineTile4bpp",
               [charBlock |-> s[1], tileIndex |-> s[2],
                pix |-> SpotTile(p, a, b),
                pixels |-> Pack4bpp(SpotTile(p, a, b))],
               DefineTile4bpp(s[1], s[2], Pack4bpp(SpotTile(p, a, b))))
    /\ ncalls' = ncalls + 1
    /\ UNCHANGED <<appVars, glyphVars>>

CallDefineTile8bpp ==
    /\ ncalls = 0
    /\ \E s \in Slots8bpp, p \in 0..63, a \in Spots8, b \in Backgrounds8 :
          Call("DefineTile8bpp",
               [charBlock |-> s[1], tileIndex |-> s[2],
                pixels |-> SpotTile(p, a, b)],
               DefineTile8bpp(s[1], s[2], SpotTile(p, a, b)))
    /\ ncalls' = ncalls + 1
    /\ UNCHANGED <<appVars, glyphVars>>

InitTileDef ==
    /\ mem \in {EmptyMem, NeighbourTiles}
    /\ pre = mem
    /\ last = NoCall
    /\ ncalls = 0
    /\ AppIdle
    /\ GlyphIdle

NextTileDef == CallDefineTile4bpp \/ CallDefineTile8bpp

SpecTileDef == InitTileDef /\ [][NextTileDef]_vars

\* The n bytes read back from byte address base on.
ReadBytes(m, base, n) == [i \in 0..(n - 1) |-> Read8(m, base + i)]

UnchangedOutside(lo, hi) ==
    \A a \in (DOMAIN mem) \cup (DOMAIN pre) :
        (a + 1 < lo \/ a >= hi) => Read16(mem, a) = Read16(pre, a)

\* C6: a pixel array packed by the 4bpp rule and written by DefineTile4bpp
\* reads back, as the 32 bytes of the tile slot unpacked, as the same pixel
\* array; the 64 bytes written by DefineTile8bpp read back as the input; and
\* no byte outside the tile slot [base, base+32) (resp. [base, base+64))
\* changes.
C6_TileRoundTrip ==
    /\ last.op = "DefineTile4bpp" =>
          LET a == last.args
              base == memVRAM + a.charBlock * 16384 + a.tileIndex * 32
          IN  /\ ReadBytes(mem, base, 32) = Pack4bpp(a.pix)
              /\ Unpack4bpp(ReadBytes(mem, base, 32)) = a.pix
              /\ Len(last.writes) = 16
              /\ UnchangedOutside(base, base + 32)
    /\ last.op = "DefineTile8bpp" =>
          LET a == last.args
              base == memVRAM + a.charBlock * 16384 + a.tileIndex * 64
          IN  /\ ReadBytes(mem, base, 64) = a.pixels
              /\ Len(last.writes) = 32
              /\ UnchangedOutside(base, base + 64)

\* A 4bpp tile whose pixels 6 and 7 differ was written between two tiles
\* defined earlier.
C6_Witness ==
    /\ last.op = "DefineTile4bpp"
    /\ last.args.pix[6] = 9
    /\ last.args.pix[7] = 15
    /\ last.args.tileIndex = 1
    /\ Read16(pre, TileBase4bpp(0, 2)) = 8738
    /\ Read16(mem, TileBase4bpp(0, 2)) = 8738
    /\ Read16(mem, TileBase4bpp(0, 1) + 2) = 63999

---------------------------------------------------------------------------
(* SpecPalette: sequences of SetPaletteColor calls.                        *)

MaxPaletteCalls == 2

PalPalettes == {0, 1, 15}

PalIndexes == {0, 1, 3, 15, 16}

PalColors == {0, 32767}

CallSetPaletteColor ==
    /\ ncalls < MaxPaletteCalls
    /\ \E p \in PalPalettes, i \in PalIndexes, c \in PalColors :
          Call("SetPaletteColor",
               [palette |-> p, index |-> i, color |-> c],
               SetPaletteColor(p, i, c))
    /\ ncalls' = ncalls + 1
    /\ UNCHANGED <<appVars, glyphVars>>

InitPalette == MemInit /\ AppIdle /\ GlyphIdle

NextPalette == CallSetPaletteColor

SpecPalette == InitPalette /\ [][NextPalette]_vars

\* Slot 0 of 16-colour palette q.
Slot0(q) == memPAL + q * 32

Palettes16 == 0..15

\* C7 as stated: whatever palette and index are passed, slot 0 of every
\* palette is never stored to and still holds its initial value.
C7_Slot0NeverWritten ==
    \A q \in Palettes16 : Slot0(q) \notin DOMAIN mem

\* C7 as amended: SetPaletteColor stores exactly one word, at palette RAM
\* offset palette*32 + index*2, and changes nothing else; it stores to slot 0
\* of palette q exactly when palette*16 + index = q*16, so a call with index
\* in 1..15 leaves slot 0 of every palette as it was.
C7_Slot0KeptByIndex1To15 ==
    last.op = "SetPaletteColor" =>
        LET a == last.args
        IN  /\ Len(last.writes) = 1
            /\ last.writes[1].addr = memPAL + a.palette * 32 + a.index * 2
            /\ DOMAIN mem = (DOMAIN pre) \cup {last.writes[1].addr}
            /\ Read16(mem, last.writes[1].addr) = a.color
            /\ \A b \in DOMAIN pre :
                  b # last.writes[1].addr => mem[b] = pre[b]
            /\ \A q \in Palettes16 :
                  (Slot0(q) \in StoreAddrs(last.writes))
                      <=> (a.palette * 16 + a.index = q * 16)
            /\ a.index \in 1..15 =>
                  \A q \in Palettes16 :
                      /\ Slot0(q) \notin StoreAddrs(last.writes)
                      /\ Read16(mem, Slot0(q)) = Read16(pre, Slot0(q))

\* Two calls with index in 1..15 have stored colours, and slot 0 of palette 0
\* and of palette 1 still hold their initial values.
C7_Witness ==
    /\ ncalls = 2
    /\ last.op = "SetPaletteColor"
    /\ last.args.index = 3
    /\ last.args.palette = 0
    /\ Read16(mem, memPAL + 6) = 32767
    /\ Read16(mem, memPAL + 30) = 32767
    /\ Slot0(0) \notin DOMAIN mem
    /\ Slot0(1) \notin DOMAIN mem

---------------------------------------------------------------------------
(* The example's glyph compositor.                                         *)

palKeyGray == 1

palKeyHL == 2

palLetter == 3

letterGlyphs ==
    << <<14, 17, 17, 31, 17, 17, 17>>, <<30, 17, 17, 30, 17, 17, 30>>,
       <<14, 17, 16, 16, 16, 17, 14>>, <<30, 17, 17, 17, 17, 17, 30>>,
       <<31, 16, 16, 30, 16, 16, 31>>, <<31, 16, 16, 30, 16, 16, 16>>,
       <<14, 17, 16, 23, 17, 17, 14>>, <<17, 17, 17, 31, 17, 17, 17>>,
       <<31, 4, 4, 4, 4, 4, 31>>,      <<15, 1, 1, 1, 17, 17, 14>>,
       <<17, 18, 20, 24, 20, 18, 17>>, <<16, 16, 16, 16, 16, 16, 31>>,
       <<17, 27, 21, 17, 17, 17, 17>>, <<17, 25, 21, 19, 17, 17, 17>>,
       <<14, 17, 17, 17, 17, 17, 14>>, <<30, 17, 17, 30, 16, 16, 16>>,
       <<14, 17, 17, 17, 21, 18, 13>>, <<30, 17, 17, 30, 20, 18, 17>>,
       <<15, 16, 16, 14, 1, 1, 30>>,   <<31, 4, 4, 4, 4, 4, 4>>,
       <<17, 17, 17, 17, 17, 17, 14>>, <<17, 17, 17, 17, 10, 10, 4>>,
       <<17, 17, 17, 17, 21, 27, 17>>, <<17, 10, 10, 4, 10, 10, 17>>,
       <<17, 17, 10, 4, 4, 4, 4>>,     <<31, 1, 2, 4, 8, 16, 31>> >>

\* The [7]uint8 of letter i (0..25), indexed 0..6 as in the source.
GlyphRowsOf(i) == [gr \in 0..6 |-> letterGlyphs[i + 1][gr + 1]]

ZeroTile == [i \in 0..31 |-> 0]

\* Faulty variant: bit 0 taken as the leftmost column.
GlyphRowPixelsReversed(bits) ==
    [i \in 0..4 |-> IF Bit(bits, i) # 0 THEN palLetter ELSE 0]

\* var g [5]uint8; g[i] = palLetter where (bits>>(4-i))&1 != 0
GlyphRowPixels(bits) ==
    [i \in 0..4 |-> IF BitAnd(Shr(bits, 4 - i), 1) # 0 THEN palLetter ELSE 0]

\* Faulty variant: the bottom tiles' rows counted from 1.
GlyphTileRowFromOne(gr) == IF gr < 4 THEN 4 + gr ELSE gr - 3

GlyphTileRow(gr) == IF gr < 4 THEN 4 + gr ELSE gr - 4

\* One iteration of the loop over gr, on the buffers q.
GlyphRowStep(q, rws, gr) ==
    LET g == GlyphRowPixels(rws[gr])
        base == GlyphTileRow(gr) * 4
        left(buf) == [buf EXCEPT ![base + 2] = BitOr(0, Shl8(g[0], 4)),
                                 ![base + 3] = BitOr(g[1], Shl8(g[2], 4))]
        right(buf) == [buf EXCEPT ![base + 0] = BitOr(g[3], Shl8(g[4], 4))]
    IN  IF gr < 4
        THEN [q EXCEPT !.tl = left(@), !.tr = right(@)]
        ELSE [q EXCEPT !.bl = left(@), !.br = right(@)]

RECURSIVE GlyphLoop(_, _, _)
GlyphLoop(q, rws, gr) ==
    IF gr < 7 THEN GlyphLoop(GlyphRowStep(q, rws, gr), rws, gr + 1) ELSE q

glyphQuarterTiles(rws) ==
    GlyphLoop([tl |-> ZeroTile, tr |-> ZeroTile, bl |-> ZeroTile, br |-> ZeroTile],
              rws, 0)

---------------------------------------------------------------------------
(* SpecGlyph: glyphQuarterTiles applied to the 26 letters and to glyphs    *)
(* with one row set to each uint8 value.                                   *)

BaseGlyphs ==
    { [gr \in 0..6 |-> 0], [gr \in 0..6 |-> 255], GlyphRowsOf(0) }

GlyphInputs ==
    { GlyphRowsOf(i) : i \in 0..25 }
    \cup { [b EXCEPT ![gr] = v] : b \in BaseGlyphs, gr \in 0..6, v \in 0..255 }

RunGlyphQuarterTiles ==
    /\ quads = << >>
    /\ quads' = glyphQuarterTiles(rows)
    /\ UNCHANGED <<mem, pre, last, ncalls, appVars, rows>>

InitGlyph ==
    /\ rows \in GlyphInputs
    /\ quads = << >>
    /\ MemInit
    /\ AppIdle

NextGlyph == RunGlyphQuarterTiles

SpecGlyph == InitGlyph /\ [][NextGlyph]_vars

\* Glyph pixel (r, c): bit 4 of a row is column 0.
GlyphBit(rws, r, c) == Bit(rws[r], 4 - c) = 1

\* The buffer of the tile in column tc, row trow of the 2x2 key block.
Quadrant(q, tc, trow) ==
    IF trow = 0 THEN (IF tc = 0 THEN q.tl ELSE q.tr)
                ELSE (IF tc = 0 THEN q.bl ELSE q.br)

\* Pixel (px, py) of a 4bpp tile: byte py*4 + px div 2, low nibble for even px.
Pixel4bpp(buf, px, py) ==
    LET byte == buf[py * 4 + px \div 2]
    IN  IF px % 2 = 0 THEN byte % 16 ELSE byte \div 16

\* Every set glyph pixel, placed at offset (ox, oy), is in the quadrant that
\* owns it, at its place and nibble, and in no other quadrant.
PlacedAt(ox, oy) ==
    \A r \in 0..6, c \in 0..4 :
        GlyphBit(rows, r, c) =>
            LET tc == (ox + c) \div 8
                trow == (oy + r) \div 8
                px == (ox + c) % 8
                py == (oy + r) % 8
                byte == Quadrant(quads, tc, trow)[py * 4 + px \div 2]
            IN  /\ IF px % 2 = 0 THEN byte % 16 = palLetter
                                 ELSE byte \div 16 = palLetter
                /\ \A tc2 \in 0..1, trow2 \in 0..1 :
                      <<tc2, trow2>> # <<tc, trow>> =>
                          Pixel4bpp(Quadrant(quads, tc2, trow2), px, py) = 0

\* C1 as stated: for every offset (ox, oy) in 0..7 x 0..7, every set glyph
\* pixel (r, c) is in exactly one quadrant buffer, the quadrant
\* ((ox+c) div 8, (oy+r) div 8), at ((ox+c) mod 8, (oy+r) mod 8), in byte
\* py*4 + px div 2, low nibble for even px, high nibble for odd px.
C1_EveryOffset ==
    quads # << >> => \A ox \in 0..7, oy \in 0..7 : PlacedAt(ox, oy)

\* C1 as amended: glyphQuarterTiles takes no offset; at the one offset it
\* implements, (5, 4), every set glyph pixel (r, c) is in exactly one quadrant
\* buffer, the quadrant ((5+c) div 8, (4+r) div 8), at ((5+c) mod 8,
\* (4+r) mod 8), in byte py*4 + px div 2, low nibble for even px, high nibble
\* for odd px.
C1_ReferenceOffset ==
    quads # << >> => PlacedAt(5, 4)

\* The letter "a" composited: its pixels (0, 1) and (0, 2) in the two nibbles
\* of the top-left tile's byte 19, its pixels (3, 3) and (3, 4) in the
\* top-right tile, its pixel (6, 0) in the bottom-left tile, its pixel (4, 4)
\* in the bottom-right tile.
C1_Witness ==
    /\ quads # << >>
    /\ rows = GlyphRowsOf(0)
    /\ quads.tl[19] = 51
    /\ quads.tr[28] = 51
    /\ quads.bl[10] = 48
    /\ quads.br[0] = 48

\* C2: at the reference offset (5, 4), the four buffers decoded as 4bpp tiles
\* hold palLetter exactly at the glyph's set pixels moved by the offset and 0
\* everywhere else: rows 0-3 in the top tiles at tile rows 4-7, rows 4-6 in
\* the bottom tiles at tile rows 0-2, columns 0-2 in the left tiles at x 5-7,
\* columns 3-4 in the right tiles at x 0-1.
C2_ExactImage ==
    quads # << >> =>
        /\ \A tc \in 0..1, trow \in 0..1, px \in 0..7, py \in 0..7 :
              LET r == 8 * trow + py - 4
                  c == 8 * tc + px - 5
              IN  Pixel4bpp(Quadrant(quads, tc, trow), px, py)
                      = IF r \in 0..6 /\ c \in 0..4 /\ GlyphBit(rows, r, c)
                        THEN palLetter ELSE 0
        /\ \A r \in 0..3, c \in 0..2 :
              GlyphBit(rows, r, c) => Pixel4bpp(quads.tl, 5 + c, 4 + r) = palLetter
        /\ \A r \in 0..3, c \in 3..4 :
              GlyphBit(rows, r, c) => Pixel4bpp(quads.tr, c - 3, 4 + r) = palLetter
        /\ \A r \in 4..6, c \in 0..2 :
              GlyphBit(rows, r, c) => Pixel4bpp(quads.bl, 5 + c, r - 4) = palLetter
        /\ \A r \in 4..6, c \in 3..4 :
              GlyphBit(rows, r, c) => Pixel4bpp(quads.br, c - 3, r - 4) = palLetter
        /\ \A tc \in 0..1, trow \in 0..1, i \in 0..31 :
              Quadrant(quads, tc, trow)[i] \in 0..255

\* A glyph whose row 5 is 255 (bits above bit 4 set) composited over the
\* letter "a": the row fills x 5-7 of the bottom-left tile's row 1 and x 0-1 of
\* the bottom-right tile's row 1, and nothing else in that row.
C2_Witness ==
    /\ quads # << >>
    /\ rows = [GlyphRowsOf(0) EXCEPT ![5] = 255]
    /\ quads.bl[4] = 0
    /\ quads.bl[5] = 0
    /\ quads.bl[6] = 48
    /\ quads.bl[7] = 51
    /\ quads.br[4] = 51
    /\ quads.br[5] = 0
    /\ quads.tl[18] = 0

---------------------------------------------------------------------------
(* Device registers (device/gba), written by tiles.go and sound.go.        *)

DISPCNT == 67108864

BGCNT(layer) == 67108872 + 2 * layer

BGHOFS(layer) == 67108880 + 4 * layer

BGVOFS(layer) == 67108882 + 4 * layer

SOUND2CNT_L == 67108968

SOUND2CNT_H == 67108972

SOUNDCNT_L == 67108992

SOUNDCNT_H == 67108994

SOUNDCNT_X == 67108996

BGCNT_CHAR_BASE_Pos == 2

BGCNT_COLORS_Pos == 7

BGCNT_BASE_Pos == 8

BGCNT_SIZE_Pos == 14

Layer0 == 0

Layer1 == 1

Colors16 == 0

Size32x32 == 0

RECURSIVE LayerBits(_)
LayerBits(layers) ==
    IF layers = << >> THEN 0
    ELSE BitOr(Shl16(1, 8 + Head(layers)), LayerBits(Tail(layers)))

ConfigureLayers(layers) == mem16Set(DISPCNT, LayerBits(layers))

SetupLayer(layer, charBlock, screenBlock, mode, size, priority) ==
    mem16Set(BGCNT(layer),
        BitOr(BitOr(BitOr(BitOr(priority,
                                Shl16(charBlock, BGCNT_CHAR_BASE_Pos)),
                          Shl16(mode, BGCNT_COLORS_Pos)),
                    Shl16(screenBlock, BGCNT_BASE_Pos)),
              Shl16(size, BGCNT_SIZE_Pos)))

SetScroll(layer, x, y) ==
    mem16Set(BGHOFS(layer), BitAnd(x, 511)) \o mem16Set(BGVOFS(layer), BitAnd(y, 511))

EnableSound(leftVolume, rightVolume) ==
    mem16Set(SOUNDCNT_X, Shl16(1, 7))
    \o mem16Set(SOUNDCNT_L,
           BitOr(BitOr(BitOr(rightVolume, Shl16(leftVolume, 4)), Shl16(1, 9)),
                 Shl16(1, 13)))
    \o mem16Set(SOUNDCNT_H, 2)

PlayNote(frequency, duty, volume, duration) ==
    mem16Set(SOUND2CNT_L, BitOr(BitOr(duration, Shl16(duty, 6)), Shl16(volume, 12)))
    \o (IF duration > 0
        THEN mem16Set(SOUND2CNT_H,
                 BitOr(BitOr(frequency, Shl16(1, 14)), Shl16(1, 15)))
        ELSE mem16Set(SOUND2CNT_H, BitOr(frequency, Shl16(1, 15))))

---------------------------------------------------------------------------
(* The tiled keyboard example.                                             *)

\* The three QWERTY rows, each key as its letter's index ('a' = 0).
layout ==
    << <<16, 22, 4, 17, 19, 24, 20, 8, 14, 15>>,
       <<0, 18, 3, 5, 6, 7, 9, 10, 11>>,
       <<25, 23, 2, 21, 1, 13, 12>> >>

\* len(layout[row]), rows counted from 0
RowLen(row) == Len(layout[row + 1])

NumRows == Len(layout)

Keys == { k \in (0..2) \X (0..9) : k[2] < RowLen(k[1]) }

kbCharBlock == 0

kbBgBlock == 8

kbFgBlock == 9

tileKeyNormal == 1

tileKeySelect == 2

tileLetterBase == 10

kbTileY0 == 13

keyTileX(row, col) ==
    CASE row = 0 -> U8(5 + col * 2)
      [] row = 1 -> U8(6 + col * 2)
      [] OTHER   -> U8(8 + col * 2)

keyTileY(row) == U8(kbTileY0 + row * 2)

setKeyBg(row, col, tile) ==
    LET x == keyTileX(row, col)
        y == keyTileY(row)
    IN  SetTile(kbBgBlock, x, y, tile, 0, FALSE, FALSE)
        \o SetTile(kbBgBlock, U8(x + 1), y, tile, 0, FALSE, FALSE)
        \o SetTile(kbBgBlock, x, U8(y + 1), tile, 0, FALSE, FALSE)
        \o SetTile(kbBgBlock, U8(x + 1), U8(y + 1), tile, 0, FALSE, FALSE)

RECURSIVE Flatten(_)
Flatten(ss) == IF ss = << >> THEN << >> ELSE Head(ss) \o Flatten(Tail(ss))

\* The keys in the order the nested range loops visit them.
KeysInOrder ==
    Flatten([r \in 1..NumRows |-> [c \in 1..Len(layout[r]) |-> <<r - 1, c - 1>>]])

letterTiles(row, col) ==
    LET letterIdx == layout[row + 1][col + 1]
        x == keyTileX(row, col)
        y == keyTileY(row)
        base == (tileLetterBase + letterIdx * 4) % 65536
    IN  SetTile(kbFgBlock, x, y, base + 0, 0, FALSE, FALSE)
        \o SetTile(kbFgBlock, U8(x + 1), y, base + 1, 0, FALSE, FALSE)
        \o SetTile(kbFgBlock, x, U8(y + 1), base + 2, 0, FALSE, FALSE)
        \o SetTile(kbFgBlock, U8(x + 1), U8(y + 1), base + 3, 0, FALSE, FALSE)

setLetterTiles ==
    Flatten([k \in 1..Len(KeysInOrder) |->
                letterTiles(KeysInOrder[k][1], KeysInOrder[k][2])])

InitCall(op, ws) == [op |-> op, writes |-> ws]

letterTileDefs(i) ==
    LET q == glyphQuarterTiles(GlyphRowsOf(i))
        base == (tileLetterBase + i * 4) % 65536
    IN  << InitCall("DefineTile4bpp", DefineTile4bpp(kbCharBlock, base + 0, q.tl)),
           InitCall("DefineTile4bpp", DefineTile4bpp(kbCharBlock, base + 1, q.tr)),
           InitCall("DefineTile4bpp", DefineTile4bpp(kbCharBlock, base + 2, q.bl)),
           InitCall("DefineTile4bpp", DefineTile4bpp(kbCharBlock, base + 3, q.br)) >>

\* The calls InitTiles makes, in order, with the cursor at (sr, sc).
InitTilesCalls(sr, sc) ==
    << InitCall("ConfigureLayers", ConfigureLayers(<<Layer0, Layer1>>)),
       InitCall("SetupLayer", SetupLayer(Layer1, kbCharBlock, kbBgBlock, Colors16, Size32x32, 1)),
       InitCall("SetupLayer", SetupLayer(Layer0, kbCharBlock, kbFgBlock, Colors16, Size32x32, 0)),
       InitCall("SetScroll", SetScroll(Layer0, 0, 0)),
       InitCall("SetScroll", SetScroll(Layer1, 0, 0)),
       InitCall("SetPaletteColor", SetPaletteColor(0, palKeyGray, RGB(12, 12, 12))),
       InitCall("SetPaletteColor", SetPaletteColor(0, palKeyHL, RGB(14, 8, 20))),
       InitCall("SetPaletteColor", SetPaletteColor(0, palLetter, RGB(31, 31, 31))),
       InitCall("DefineTile4bpp",
         DefineTile4bpp(kbCharBlock, tileKeyNormal,
                        SolidBytes(BitOr(palKeyGray, Shl8(palKeyGray, 4))))),
       InitCall("DefineTile4bpp",
         DefineTile4bpp(kbCharBlock, tileKeySelect,
                        SolidBytes(BitOr(palKeyHL, Shl8(palKeyHL, 4))))) >>
    \o Flatten([i \in 1..Len(letterGlyphs) |-> letterTileDefs(i - 1)])
    \o << InitCall("FillTiled", FillTiled(kbBgBlock, 0, 0, 30, 20, 0, 0)),
          InitCall("FillTiled", FillTiled(kbFgBlock, 0, 0, 30, 20, 0, 0)) >>
    \o [k \in 1..Len(KeysInOrder) |->
           InitCall("setKeyBg",
                    setKeyBg(KeysInOrder[k][1], KeysInOrder[k][2], tileKeyNormal))]
    \o << InitCall("setLetterTiles", setLetterTiles),
          InitCall("setKeyBg", setKeyBg(sr, sc, tileKeySelect)) >>

\* Faulty variant: the previously highlighted key is not restored.
DrawTileNoRestore(sr, sc, ptr, ptc) ==
    IF sr = ptr /\ sc = ptc
    THEN << >>
    ELSE setKeyBg(sr, sc, tileKeySelect)

\* Faulty variant: no early return when the selection has not moved.
DrawTileAlways(sr, sc, ptr, ptc) ==
    setKeyBg(ptr, ptc, tileKeyNormal) \o setKeyBg(sr, sc, tileKeySelect)

\* The stores of DrawTile with the cursor at (sr, sc) and the key last
\* highlighted at (ptr, ptc).
DrawTile(sr, sc, ptr, ptc) ==
    IF sr = ptr /\ sc = ptc
    THEN << >>
    ELSE setKeyBg(ptr, ptc, tileKeyNormal) \o setKeyBg(sr, sc, tileKeySelect)

\* Buttons: KEYINPUT masks; a button is pushed when its bit is low.
ButtonA == 1

ButtonRight == 16

ButtonLeft == 32

ButtonUp == 64

ButtonDown == 128

IsPushed(button, state) == BitAnd(state, button) = 0

\* Faulty variant: a button counts on every frame it is down.
justPressedWhileHeld(button, curr, prev) == IsPushed(button, curr)

justPressed(button, curr, prev) == IsPushed(button, curr) /\ ~IsPushed(button, prev)

\* The cursor after Update reads curr, and whether it beeps.
Update(curr, prev, row, col) ==
    CASE justPressed(ButtonRight, curr, prev) ->
            [row |-> row,
             col |-> IF col + 1 >= RowLen(row) THEN 0 ELSE col + 1,
             playBeep |-> TRUE]
      [] justPressed(ButtonLeft, curr, prev) ->
            [row |-> row,
             col |-> IF col - 1 < 0 THEN RowLen(row) - 1 ELSE col - 1,
             playBeep |-> TRUE]
      [] justPressed(ButtonDown, curr, prev) ->
            LET r == IF row + 1 >= NumRows THEN 0 ELSE row + 1
            IN  [row |-> r,
                 col |-> IF col >= RowLen(r) THEN RowLen(r) - 1 ELSE col,
                 playBeep |-> TRUE]
      [] justPressed(ButtonUp, curr, prev) ->
            LET r == IF row - 1 < 0 THEN NumRows - 1 ELSE row - 1
            IN  [row |-> r,
                 col |-> IF col >= RowLen(r) THEN RowLen(r) - 1 ELSE col,
                 playBeep |-> TRUE]
      [] OTHER -> [row |-> row, col |-> col, playBeep |-> FALSE]

\* What ReadButtons can return: every combination of the four directions
\* and A, the other buttons released.
RECURSIVE SumOf(_)
SumOf(S) == IF S = {} THEN 0 ELSE LET x == CHOOSE x \in S : TRUE IN x + SumOf(S \ {x})

ButtonStates ==
    { 1023 - SumOf(S) :
        S \in SUBSET {ButtonA, ButtonRight, ButtonLeft, ButtonUp, ButtonDown} }

---------------------------------------------------------------------------
(* Spec: main of the example -- InitTiles, EnableSound, then Update and    *)
(* DrawTile once per frame (WaitForVBlank only waits).                     *)

InitTilesStep ==
    /\ pc = "InitTiles"
    /\ ip <= Len(InitTilesCalls(selectedRow, selectedCol))
    /\ LET c == InitTilesCalls(selectedRow, selectedCol)[ip]
       IN  Call(c.op, [step |-> ip], c.writes)
    /\ ip' = ip + 1
    /\ UNCHANGED <<ncalls, selectedRow, selectedCol, prevButtons, prevTileRow,
                   prevTileCol, pc, glyphVars>>

InitTilesReturn ==
    /\ pc = "InitTiles"
    /\ ip = Len(InitTilesCalls(selectedRow, selectedCol)) + 1
    /\ prevTileRow' = selectedRow
    /\ prevTileCol' = selectedCol
    /\ pc' = "EnableSound"
    /\ UNCHANGED <<mem, pre, last, ncalls, selectedRow, selectedCol,
                   prevButtons, ip, glyphVars>>

MainEnableSound ==
    /\ pc = "EnableSound"
    /\ Call("EnableSound", [leftVolume |-> 7, rightVolume |-> 7], EnableSound(7, 7))
    /\ pc' = "Update"
    /\ UNCHANGED <<ncalls, selectedRow, selectedCol, prevButtons, prevTileRow,
                   prevTileCol, ip, glyphVars>>

UpdateStep ==
    /\ pc = "Update"
    /\ \E curr \in ButtonStates :
          LET u == Update(curr, prevButtons, selectedRow, selectedCol)
          IN  /\ selectedRow' = u.row
              /\ selectedCol' = u.col
              /\ Call("Update", [curr |-> curr],
                      IF u.playBeep THEN PlayNote(1800, 0, 6, 57) ELSE << >>)
              /\ prevButtons' = curr
    /\ pc' = "DrawTile"
    /\ UNCHANGED <<ncalls, prevTileRow, prevTileCol, ip, glyphVars>>

DrawTileStep ==
    /\ pc = "DrawTile"
    /\ Call("DrawTile",
            [selectedRow |-> selectedRow, selectedCol |-> selectedCol,
             prevTileRow |-> prevTileRow, prevTileCol |-> prevTileCol],
            DrawTile(selectedRow, selectedCol, prevTileRow, prevTileCol))
    /\ IF selectedRow = prevTileRow /\ selectedCol = prevTileCol
       THEN UNCHANGED <<prevTileRow, prevTileCol>>
       ELSE /\ prevTileRow' = selectedRow
            /\ prevTileCol' = selectedCol
    /\ pc' = "Update"
    /\ UNCHANGED <<ncalls, selectedRow, selectedCol, prevButtons, ip, glyphVars>>

Init == MemInit /\ AppIdle /\ GlyphIdle

Next ==
    \/ InitTilesStep
    \/ InitTilesReturn
    \/ MainEnableSound
    \/ UpdateStep
    \/ DrawTileStep

Spec == Init /\ [][Next]_vars

---------------------------------------------------------------------------
(* Properties of the example's run.                                        *)

\* The address range of screen block sb.
InScreenBlock(sb, a) ==
    memVRAM + sb * 2048 <= a /\ a < memVRAM + (sb + 1) * 2048

\* The address range of character block cb.
InCharBlock(cb, a) ==
    memVRAM + cb * 16384 <= a /\ a < memVRAM + (cb + 1) * 16384

\* Background palette RAM.
InPalette(a) == memPAL <= a /\ a < memPAL + 512

\* All sixteen words of 4bpp tile t of the keyboard's character block have
\* been stored.
TileWritten(t) ==
    \A k \in 0..15 : (memVRAM + kbCharBlock * 16384 + t * 32 + 2 * k) \in DOMAIN mem

\* C8: whenever a tilemap entry of the keyboard's two screen blocks has been
\* written with tile index t, the image of tile t has been completely
\* written before; for every index referenced, the blank tile 0 included.
C8_TileBeforeReference ==
    \A a \in DOMAIN mem :
        (InScreenBlock(kbBgBlock, a) \/ InScreenBlock(kbFgBlock, a))
            => TileWritten(EntryTile(mem[a]))

\* The four tilemap cells of a key (header of the example: row 0 at tile
\* x 5-24, y 13-14; row 1 at x 6-23, y 15-16; row 2 at x 8-21, y 17-18).
KeyCells(k) ==
    LET x0 == (IF k[1] = 0 THEN 5 ELSE IF k[1] = 1 THEN 6 ELSE 8) + 2 * k[2]
        y0 == 13 + 2 * k[1]
    IN  { <<x0, y0>>, <<x0 + 1, y0>>, <<x0, y0 + 1>>, <<x0 + 1, y0 + 1>> }

BgCellAddr(cell) == memVRAM + kbBgBlock * 2048 + (cell[2] * 32 + cell[1]) * 2

KeyShows(k, tile) ==
    \A cell \in KeyCells(k) : Read16(mem, BgCellAddr(cell)) = tile

AtFrameBoundary == pc \in {"EnableSound", "Update"}

\* C9: after InitTiles and after every DrawTile, the four background cells
\* of the selected key hold tileKeySelect, those of every other key hold
\* tileKeyNormal, exactly one key is highlighted, and (prevTileRow,
\* prevTileCol) = (selectedRow, selectedCol).
C9_HighlightInvariant ==
    AtFrameBoundary =>
        /\ <<selectedRow, selectedCol>> \in Keys
        /\ prevTileRow = selectedRow
        /\ prevTileCol = selectedCol
        /\ \A k \in Keys :
              IF k = <<selectedRow, selectedCol>>
              THEN KeyShows(k, tileKeySelect)
              ELSE KeyShows(k, tileKeyNormal)
        /\ Cardinality({ k \in Keys : KeyShows(k, tileKeySelect) }) = 1

\* DrawTile has moved the highlight from "p" (0, 9) to "m" (2, 6).
C9_Witness ==
    /\ pc = "Update"
    /\ last.op = "DrawTile"
    /\ last.args.prevTileRow = 0
    /\ last.args.prevTileCol = 9
    /\ selectedRow = 2
    /\ selectedCol = 6
    /\ Read16(mem, TilemapAddr(kbBgBlock, 21, 18)) = tileKeySelect
    /\ Read16(mem, TilemapAddr(kbBgBlock, 24, 14)) = tileKeyNormal
    /\ Read16(pre, TilemapAddr(kbBgBlock, 24, 14)) = tileKeySelect

\* C10: DrawTile stores nothing when the selection is the one last drawn;
\* otherwise it stores to exactly the eight background cells of the key last
\* highlighted and of the selected key, once each, every store changing the
\* cell's value; nothing else changes, and no store goes to the letter layer
\* (screen block 9), to tile images or to the palette.
C10_DrawTileWritesOnlyChanges ==
    last.op = "DrawTile" =>
        LET a == last.args
            old == <<a.prevTileRow, a.prevTileCol>>
            new == <<a.selectedRow, a.selectedCol>>
        IN  IF old = new
            THEN /\ last.writes = << >>
                 /\ mem = pre
            ELSE /\ StoreAddrs(last.writes)
                       = { BgCellAddr(cell) : cell \in KeyCells(old) \cup KeyCells(new) }
                 /\ Len(last.writes) = 8
                 /\ \A i \in 1..Len(last.writes) :
                       /\ Read16(pre, last.writes[i].addr) # last.writes[i].val
                       /\ Read16(mem, last.writes[i].addr) = last.writes[i].val
                       /\ InScreenBlock(kbBgBlock, last.writes[i].addr)
                       /\ ~InScreenBlock(kbFgBlock, last.writes[i].addr)
                       /\ ~InCharBlock(kbCharBlock, last.writes[i].addr)
                       /\ ~InPalette(last.writes[i].addr)
                 /\ DOMAIN mem = DOMAIN pre
                 /\ \A b \in (DOMAIN mem) \ StoreAddrs(last.writes) : mem[b] = pre[b]

\* DrawTile has moved the highlight from "q" (0, 0) to "w" (0, 1): eight
\* stores, to tile x 5-8, y 13-14 of screen block 8.
C10_Witness ==
    /\ last.op = "DrawTile"
    /\ last.args.prevTileRow = 0
    /\ last.args.prevTileCol = 0
    /\ last.args.selectedRow = 0
    /\ last.args.selectedCol = 1
    /\ Len(last.writes) = 8
    /\ Read16(pre, TilemapAddr(kbBgBlock, 5, 13)) = tileKeySelect
    /\ Read16(mem, TilemapAddr(kbBgBlock, 5, 13)) = tileKeyNormal
    /\ Read16(pre, TilemapAddr(kbBgBlock, 8, 14)) = tileKeyNormal
    /\ Read16(mem, TilemapAddr(kbBgBlock, 8, 14)) = tileKeySelect

---------------------------------------------------------------------------
(* The cursor.                                                             *)

\* The keys of row r, as the claim counts them.
KeysInRow(r) == Len(<<"qwertyuiop", "asdfghjkl", "zxcvbnm">>[r + 1])

CursorInBounds ==
    /\ selectedRow \in 0..2
    /\ selectedCol \in 0..(KeysInRow(selectedRow) - 1)

\* Where a direction takes the cursor from (r, c): Left/Right within the row,
\* wrapping; Up/Down to the neighbouring row, wrapping, the column clamped to
\* the last key of the new row.
CursorMove(button, r, c) ==
    LET clamp(r2) == <<r2, IF c < KeysInRow(r2) THEN c ELSE KeysInRow(r2) - 1>>
    IN  CASE button = ButtonRight -> <<r, (c + 1) % KeysInRow(r)>>
          [] button = ButtonLeft  -> <<r, (c + KeysInRow(r) - 1) % KeysInRow(r)>>
          [] button = ButtonDown  -> clamp((r + 1) % 3)
          [] button = ButtonUp    -> clamp((r + 2) % 3)

\* The directions down in curr that were up in prev.
NewlyPressed(curr, prev) ==
    { b \in {ButtonRight, ButtonLeft, ButtonDown, ButtonUp} :
        Bit(curr, CHOOSE n \in 0..9 : 2 ^ n = b) = 0
        /\ Bit(prev, CHOOSE n \in 0..9 : 2 ^ n = b) = 1 }

\* One call of Update, seen from outside: the cursor goes where one of the
\* newly pressed directions takes it, and stays when there is none -- so a
\* direction still down from the call before moves nothing.
UpdateMovesCursor ==
    (pc = "Update" /\ pc' = "DrawTile") =>
        LET new == NewlyPressed(prevButtons', prevButtons)
        IN  /\ new = {} =>
                <<selectedRow', selectedCol'>> = <<selectedRow, selectedCol>>
            /\ new # {} =>
                \E b \in new :
                    <<selectedRow', selectedCol'>>
                        = CursorMove(b, selectedRow, selectedCol)
            /\ <<selectedRow', selectedCol'>> # <<selectedRow, selectedCol>>
                   <=> new # {}

\* C11: from (0, 0), after any sequence of Update calls with any button
\* states, 0 <= selectedRow < 3 and 0 <= selectedCol < the number of keys of
\* row selectedRow (10, 9, 7); Left/Right wrap within the row, Up/Down wrap
\* between rows and clamp the column to the last key of the new row, and a
\* button held across consecutive Update calls moves the cursor only on the
\* first of them.
C11_CursorBounds == []CursorInBounds /\ [][UpdateMovesCursor]_vars

\* Update has just returned without a beep although Right is down: Right was
\* already down at the call before, which moved the cursor; it now rests on
\* the last key of the bottom row, the column an Up/Down clamp or a Left wrap
\* gives.
C11_Witness ==
    /\ pc = "DrawTile"
    /\ last.op = "Update"
    /\ last.writes = << >>
    /\ Bit(prevButtons, 4) = 0
    /\ selectedRow = 2
    /\ selectedCol = 6
    /\ prevTileRow = 2
    /\ prevTileCol = 6

===========================================================================
